---- MODULE Spec2Model ----
(***************************************************************************)
(* kreqo-habits: the task list of src/src/todo.rs.                         *)
(*                                                                         *)
(* The server functions get_todos, add_todo, update_todo and delete_todo   *)
(* run against the todos table; the Todos component dispatches them        *)
(* through a multi-action (add_todo), an action (delete_todo) and a        *)
(* spawned task (update_todo), and renders the fetched list followed by    *)
(* the pending submissions.  Every server function call is a record of     *)
(* `calls' that moves through its stages, so calls interleave at every     *)
(* await of the source.                                                    *)
(***************************************************************************)
EXTENDS Integers, Sequences, FiniteSets, TLC

(* ------------------------------ bounds --------------------------------- *)

\* Mutations the user of the page submits in one run.
MaxMutations == 2

\* Direct calls of the server functions in one run.
MaxCalls == 3

\* Direct calls by callers of any kind in one run.
MaxOpenCalls == 2

\* Rows already in the todos table when the page is opened.
MaxInitRows == 1

\* Rows already in the todos table when the direct calls start.
MaxStoredRows == 3

\* Failures of the database or of the session store in one run.
MaxFailures == 1

(* ------------------------------ values --------------------------------- *)

\* No session user (get_user() returned Ok(None)).
NoUser == 0

\* add_todo: `None => -1`, the user_id written when no session is active.
AnonymousId == -1

\* Rows of the users table.
Users == {1}

\* What a caller's session resolves to.
Callers == {NoUser} \cup Users

\* Titles typed into the form.
Titles == {"a"}

\* Task ids a direct caller may name.
TaskIds == {1, 2, 3}

\* delete_todo(id: u16): the largest id its parameter can carry.
U16Max == 65535

VARIABLES
    store,        \* the todos table, in rowid order
    nextId,       \* the id the table assigns to the next inserted row
    failures,     \* failures of the database or the session store so far
    calls,        \* the server function calls in flight, in order of issue
    submissions,  \* add_todo.submissions(): the multi-action's submissions
    addVersion,   \* add_todo.version()
    delAction,    \* delete_todo: the action's signals
    todos,        \* the todos resource: its value and its load counter
    completed,    \* the `completed' signal of each Todo component shown
    panicked,     \* a spawned client task has panicked
    submitted,    \* history: the number of mutations submitted on the page
    shown         \* history: the mutations ended when the value shown was read

vars == <<store, nextId, failures, calls, submissions, addVersion, delAction,
          todos, completed, panicked, submitted, shown>>

serverVars == <<store, nextId, failures>>
clientVars == <<submissions, addVersion, delAction, todos, completed, panicked,
                submitted, shown>>

(* --------------------------- the todos table ---------------------------- *)

StoreIds(st) == {st[i].id : i \in 1 .. Len(st)}

\* User::get(user_id, pool): the user row, or None when no row matches.
UserGet(uid) == IF uid \in Users THEN [id |-> uid] ELSE [id |-> NoUser]

\* SqlTodo::into_todo: the row with its user_id resolved to a user.
into_todo(row) ==
    [id         |-> row.id,
     user       |-> UserGet(row.user_id),
     title      |-> row.title,
     created_at |-> row.created_at,
     completed  |-> row.completed]

\* The username of a user row, and that of User::default().
Username(uid) == <<"user", uid>>

DefaultUsername == <<"default", NoUser>>

\* Todo: `todo.user.unwrap_or_default().username`, the owner shown for a task.
OwnerShown(todo) ==
    IF todo.user.id = NoUser THEN DefaultUsername ELSE Username(todo.user.id)

\* The outputs in the order in which the lookups complete, last row first.
join_all_as_completed(rows) ==
    [i \in 1 .. Len(rows) |-> into_todo(rows[Len(rows) + 1 - i])]

\* join_all over the rows: the outputs in the order of the inputs.
join_all(rows) == [i \in 1 .. Len(rows) |-> into_todo(rows[i])]

\* SELECT * FROM todos
SelectAll(st) == st

\* The id (and creation stamp) the table gives the next row.
NewId(n) == n

\* An owner reference that ignores the session.
OwnerRefAnonymous(user) == AnonymousId

\* add_todo: `Some(user) => user.id, None => -1`.
OwnerRef(user) == IF user = NoUser THEN AnonymousId ELSE user

\* INSERT INTO todos (title, user_id, completed) VALUES (?, ?, false)
InsertRow(st, n, title, uid) ==
    Append(st, [id         |-> NewId(n),
                user_id    |-> uid,
                title      |-> title,
                created_at |-> NewId(n),
                completed  |-> FALSE])

\* An UPDATE without its WHERE clause.
UpdateCompletedAll(st, id, c) ==
    [i \in 1 .. Len(st) |-> [st[i] EXCEPT !.completed = c]]

\* An upsert: the row is written anew when no row has the id.
UpsertCompleted(st, id, c) ==
    IF \E i \in 1 .. Len(st) : st[i].id = id
    THEN [i \in 1 .. Len(st) |->
            IF st[i].id = id THEN [st[i] EXCEPT !.completed = c] ELSE st[i]]
    ELSE Append(st, [id |-> id, user_id |-> AnonymousId, title |-> "",
                     created_at |-> id, completed |-> c])

\* An UPDATE that flips the flag of the row instead of setting it.
UpdateCompletedFlip(st, id, c) ==
    [i \in 1 .. Len(st) |->
        IF st[i].id = id THEN [st[i] EXCEPT !.completed = ~st[i].completed] ELSE st[i]]

\* UPDATE todos SET completed = $2 WHERE id = $1
UpdateCompleted(st, id, c) ==
    [i \in 1 .. Len(st) |->
        IF st[i].id = id THEN [st[i] EXCEPT !.completed = c] ELSE st[i]]

\* A DELETE that fills the hole with the last row (Vec::swap_remove).
DeleteRowSwap(st, id) ==
    IF id \notin StoreIds(st) THEN st
    ELSE LET p == CHOOSE q \in 1 .. Len(st) : st[q].id = id
         IN  [k \in 1 .. Len(st) - 1 |-> IF k = p THEN st[Len(st)] ELSE st[k]]

\* DELETE FROM todos WHERE id = $1
DeleteRow(st, id) == SelectSeq(st, LAMBDA r : r.id # id)

\* rows_affected() of a statement with WHERE id = $1.
RowsAffected(st, id) == Cardinality({i \in 1 .. Len(st) : st[i].id = id})

\* A result that reports a statement that affected no row as an error.
ExecuteResultNotFound(affected) == IF affected = 0 THEN "NotFound" ELSE "ok"

\* `.execute(&pool).await.map(|_| ())`: the number of affected rows is dropped.
ExecuteResult(affected) == "ok"

(* ------------------------------- calls ---------------------------------- *)

Call(kind, caller) ==
    [kind      |-> kind,
     caller    |-> caller,
     title     |-> "",
     id        |-> 0,
     completed |-> FALSE,
     stage     |-> "sent",
     user      |-> NoUser,
     result    |-> "none",
     affected  |-> 0,
     sql       |-> <<>>,
     rows      |-> <<>>,
     sub       |-> 0,
     ver       |-> 0,
     seen      |-> 0]

CallIds == 1 .. Len(calls)

MutationKinds == {"add_todo", "update_todo", "delete_todo"}

Mutations == {i \in CallIds : calls[i].kind \in MutationKinds}

\* The calls but the i-th: a call that has been handled is in flight no more.
Without(cs, i) == [k \in 1 .. Len(cs) - 1 |-> IF k < i THEN cs[k] ELSE cs[k + 1]]

Replied(c, result) == [c EXCEPT !.stage = "replied", !.result = result]

\* A failure of the database or of the session store may happen.
MayFail == failures < MaxFailures

(* ------------------------- the server functions ------------------------- *)
\* Each takes the call and gives the call as replied; `fail' is whether the
\* pool, the session store or the statement fails.

\* get_todos awaits twice.  First the SELECT: the call holds the rows of the
\* table as they are when the statement runs, or replies with the error of
\* the pool or of the statement.  `seen' records how many mutations of the
\* page had ended when the table was read.
get_todos_fetch_all(c, fail) ==
    IF fail THEN Replied(c, "StoreError")
    ELSE [c EXCEPT
            !.stage = "rows",
            !.sql = SelectAll(store),
            !.seen = submitted - Cardinality(Mutations)]

\* Then join_all over the rows it holds, each with its user resolved, and the
\* reply.  into_todo gives no error, and the users do not change, so the
\* lookups of the rows are taken as one step; the table may have changed
\* since the SELECT, and the reply is made of the rows read, not of the table.
get_todos_reply(c) ==
    [Replied(c, "ok") EXCEPT !.rows = join_all(c.sql)]

\* A lookup whose failure is taken for "no session": get_user().await.unwrap_or(None).
add_todo_get_user_or_none(c, fail) ==
    [c EXCEPT !.stage = "user", !.user = IF fail THEN NoUser ELSE c.caller]

\* add_todo up to `get_user().await?'.
add_todo_get_user(c, fail) ==
    IF fail THEN Replied(c, "AuthUnavailable")
    ELSE [c EXCEPT !.stage = "user", !.user = c.caller]

\* add_todo from `pool()?' on: the reply, and the table after it.
add_todo_reply(c, fail) ==
    IF fail THEN Replied(c, "StoreError")
    ELSE [Replied(c, ExecuteResult(1)) EXCEPT !.affected = 1]

add_todo_store(c, fail) ==
    IF fail THEN store
    ELSE InsertRow(store, nextId, c.title, OwnerRef(c.user))

\* An UPDATE that is restricted to the rows the caller owns.
update_todo_store_owned(c, fail) ==
    IF fail THEN store
    ELSE [i \in 1 .. Len(store) |->
            IF store[i].id = c.id /\ store[i].user_id = OwnerRef(c.caller)
            THEN [store[i] EXCEPT !.completed = c.completed]
            ELSE store[i]]

\* update_todo: the reply, and the table after it.
update_todo_reply(c, fail) ==
    IF fail THEN Replied(c, "StoreError")
    ELSE [Replied(c, ExecuteResult(RowsAffected(store, c.id))) EXCEPT
            !.affected = RowsAffected(store, c.id)]

update_todo_store(c, fail) ==
    IF fail THEN store ELSE UpdateCompleted(store, c.id, c.completed)

\* delete_todo: the reply, and the table after it.  An id that does not
\* fit the u16 parameter fails to decode before the body runs.
delete_todo_reply(c, fail) ==
    IF c.id > U16Max THEN Replied(c, "Args")
    ELSE IF fail THEN Replied(c, "StoreError")
    ELSE [Replied(c, ExecuteResult(RowsAffected(store, c.id))) EXCEPT
            !.affected = RowsAffected(store, c.id)]

delete_todo_store(c, fail) ==
    IF fail \/ c.id > U16Max THEN store ELSE DeleteRow(store, c.id)

Failed(fail) == failures' = failures + (IF fail THEN 1 ELSE 0)

Fails == {FALSE} \cup {f \in {TRUE} : MayFail}

(* ---------------- the server serving the calls of the page -------------- *)

ServeGetTodosFetchAll(i) ==
    /\ calls[i].kind = "get_todos"
    /\ calls[i].stage = "sent"
    /\ \E fail \in Fails :
        /\ calls' = [calls EXCEPT ![i] = get_todos_fetch_all(calls[i], fail)]
        /\ Failed(fail)
    /\ UNCHANGED <<store, nextId, clientVars>>

ServeGetTodosReply(i) ==
    /\ calls[i].kind = "get_todos"
    /\ calls[i].stage = "rows"
    /\ calls' = [calls EXCEPT ![i] = get_todos_reply(calls[i])]
    /\ UNCHANGED <<store, nextId, failures, clientVars>>

ServeAddTodoUser(i) ==
    /\ calls[i].kind = "add_todo"
    /\ calls[i].stage = "sent"
    /\ \E fail \in Fails :
        /\ calls' = [calls EXCEPT ![i] = add_todo_get_user(calls[i], fail)]
        /\ Failed(fail)
    /\ UNCHANGED <<store, nextId, clientVars>>

ServeAddTodoInsert(i) ==
    /\ calls[i].kind = "add_todo"
    /\ calls[i].stage = "user"
    /\ \E fail \in Fails :
        /\ calls' = [calls EXCEPT ![i] = add_todo_reply(calls[i], fail)]
        /\ store' = add_todo_store(calls[i], fail)
        /\ nextId' = IF fail THEN nextId ELSE nextId + 1
        /\ Failed(fail)
    /\ UNCHANGED clientVars

ServeUpdateTodo(i) ==
    /\ calls[i].kind = "update_todo"
    /\ calls[i].stage = "sent"
    /\ \E fail \in Fails :
        /\ calls' = [calls EXCEPT ![i] = update_todo_reply(calls[i], fail)]
        /\ store' = update_todo_store(calls[i], fail)
        /\ Failed(fail)
    /\ UNCHANGED <<nextId, clientVars>>

ServeDeleteTodo(i) ==
    /\ calls[i].kind = "delete_todo"
    /\ calls[i].stage = "sent"
    /\ \E fail \in Fails :
        /\ calls' = [calls EXCEPT ![i] = delete_todo_reply(calls[i], fail)]
        /\ store' = delete_todo_store(calls[i], fail)
        /\ Failed(fail)
    /\ UNCHANGED <<nextId, clientVars>>

ServerStep ==
    \E i \in CallIds :
        \/ ServeGetTodosFetchAll(i)
        \/ ServeGetTodosReply(i)
        \/ ServeAddTodoUser(i)
        \/ ServeAddTodoInsert(i)
        \/ ServeUpdateTodo(i)
        \/ ServeDeleteTodo(i)

(* ------------------ direct calls of the server functions ---------------- *)
\* A statement is atomic, so a direct call of update_todo or delete_todo is
\* one step.  add_todo awaits get_user before its INSERT and get_todos awaits
\* its SELECT before join_all, so a direct call of either runs to its first
\* await when it is made and other calls run before it goes on.

CallGetTodos ==
    /\ Len(calls) < MaxCalls
    /\ \E fail \in Fails :
        /\ calls' = Append(calls,
                    get_todos_fetch_all(Call("get_todos", NoUser), fail))
        /\ Failed(fail)
    /\ UNCHANGED <<store, nextId, clientVars>>

CallAddTodo(caller, title) ==
    /\ Len(calls) < MaxCalls
    /\ \E fail \in Fails :
        /\ calls' = Append(calls,
               add_todo_get_user([Call("add_todo", caller) EXCEPT !.title = title], fail))
        /\ Failed(fail)
    /\ UNCHANGED <<store, nextId, clientVars>>

CallUpdateTodo(caller, id, c) ==
    /\ Len(calls) < MaxCalls
    /\ \E fail \in Fails :
        LET call == [Call("update_todo", caller) EXCEPT !.id = id, !.completed = c]
        IN  /\ calls' = Append(calls, update_todo_reply(call, fail))
            /\ store' = update_todo_store(call, fail)
            /\ Failed(fail)
    /\ UNCHANGED <<nextId, clientVars>>

CallDeleteTodo(caller, id) ==
    /\ Len(calls) < MaxCalls
    /\ \E fail \in Fails :
        LET call == [Call("delete_todo", caller) EXCEPT !.id = id]
        IN  /\ calls' = Append(calls, delete_todo_reply(call, fail))
            /\ store' = delete_todo_store(call, fail)
            /\ Failed(fail)
    /\ UNCHANGED <<nextId, clientVars>>

(* ------------------------------ Init ------------------------------------ *)

\* The table after k earlier add_todo calls: the first by the user, the
\* others anonymous.
RECURSIVE InitRows(_)
InitRows(k) ==
    IF k = 0 THEN <<>>
    ELSE InsertRow(InitRows(k - 1), k, "a", OwnerRef(IF k = 1 THEN 1 ELSE NoUser))

\* The server when a run starts: the table holds n rows.
InitServer(n) ==
    /\ store = InitRows(n)
    /\ nextId = n + 1
    /\ failures = 0

\* The client before the page is opened.
NoClient ==
    /\ submissions = <<>>
    /\ addVersion = 0
    /\ delAction = [pending_dispatches |-> 0, pending |-> FALSE,
                    value |-> "none", version |-> 0]
    /\ todos = [tag |-> "none", rows |-> <<>>, version |-> 0]
    /\ completed = <<>>
    /\ panicked = FALSE
    /\ submitted = 0
    /\ shown = 0

ServiceInit ==
    /\ InitServer(MaxStoredRows)
    /\ calls = <<>>
    /\ NoClient

ServiceNext ==
    \/ \E i \in CallIds : ServeAddTodoInsert(i)
    \/ \E i \in CallIds : ServeGetTodosReply(i)
    \/ CallGetTodos
    \/ \E caller \in Callers, title \in Titles : CallAddTodo(caller, title)
    \/ \E id \in TaskIds, c \in BOOLEAN : CallUpdateTodo(NoUser, id, c)
    \/ \E id \in TaskIds : CallDeleteTodo(NoUser, id)

\* The server functions called directly by any number of clients.
ServiceSpec == ServiceInit /\ [][ServiceNext]_vars

\* What may be typed into the title field, the empty title included.
FormTitles == {""} \cup Titles

OpenInit ==
    /\ InitServer(MaxInitRows)
    /\ calls = <<>>
    /\ NoClient

OpenNext ==
    \/ \E i \in CallIds : ServeAddTodoInsert(i)
    \/ \E i \in CallIds : ServeGetTodosReply(i)
    \/ Len(calls) < MaxOpenCalls /\ CallGetTodos
    \/ Len(calls) < MaxOpenCalls
        /\ \E caller \in Callers, title \in FormTitles : CallAddTodo(caller, title)
    \/ Len(calls) < MaxOpenCalls
        /\ \E caller \in Callers, id \in TaskIds, c \in BOOLEAN : CallUpdateTodo(caller, id, c)
    \/ Len(calls) < MaxOpenCalls
        /\ \E caller \in Callers, id \in TaskIds : CallDeleteTodo(caller, id)

\* The server functions called by any caller, signed in or not, with any
\* title.
OpenSpec == OpenInit /\ [][OpenNext]_vars

\* Ids of tasks around the largest id that fits delete_todo's parameter.
WideIds == {U16Max, U16Max + 1}

\* The table after so many add_todo calls that its ids have reached the end
\* of the 16-bit range: the tasks U16Max and U16Max + 1 are in it.
WideInit ==
    /\ store = InsertRow(InsertRow(<<>>, U16Max, "a", OwnerRef(NoUser)),
                         U16Max + 1, "a", OwnerRef(NoUser))
    /\ nextId = U16Max + 2
    /\ failures = 0
    /\ calls = <<>>
    /\ NoClient

WideNext ==
    \/ CallGetTodos
    \/ \E i \in CallIds : ServeGetTodosReply(i)
    \/ \E id \in WideIds, c \in BOOLEAN : CallUpdateTodo(NoUser, id, c)
    \/ \E id \in WideIds : CallDeleteTodo(NoUser, id)

\* The server functions called with the ids that get_todos returns from a
\* table whose ids have grown past 16 bits.
WideSpec == WideInit /\ [][WideNext]_vars

(* ------------------------------ the page -------------------------------- *)

\* The session of the browser that shows the page.
PageUser == NoUser

\* A task spawned on the page: it runs unless a panic has stopped the
\* executor, and then it is never polled.
Spawned(c) == IF panicked THEN [c EXCEPT !.stage = "queued"] ELSE c

\* A resource whose source is not tracked: no load is started again.
LoadNever(cs) == cs

\* create_resource: a change of (add_todo.version(), delete_todo.version())
\* loads the resource again, by a get_todos call tagged with the new load
\* counter.
Load(cs) == Append(cs, [Call("get_todos", PageUser) EXCEPT !.ver = todos.version + 1])

\* Signals that start unchecked whatever the task holds: create_signal(false).
SignalsUnchecked(rows) == [k \in 1 .. Len(rows) |-> FALSE]

\* The `completed' signals of the Todo components built for a fetched list:
\* create_signal(todo.completed).
Signals(rows) == [k \in 1 .. Len(rows) |-> rows[k].completed]

\* The resource's `version == last_version.get()': no later load has started.
IsCurrent(ver) == ver = todos.version

\* A version that is set rather than counted up.
BumpOnce(n) == 1

\* n += 1 on a version signal.
Bump(n) == n + 1

\* The page is opened: the resource starts its first load.
PageInit ==
    /\ InitServer(MaxInitRows)
    /\ submissions = <<>>
    /\ addVersion = 0
    /\ delAction = [pending_dispatches |-> 0, pending |-> FALSE,
                    value |-> "none", version |-> 0]
    /\ todos = [tag |-> "none", rows |-> <<>>, version |-> 1]
    /\ calls = <<[Call("get_todos", PageUser) EXCEPT !.ver = 1]>>
    /\ completed = <<>>
    /\ panicked = FALSE
    /\ submitted = 0
    /\ shown = 0

\* What the closure of Todos shows for the resource's value.
existing_todos ==
    IF todos.tag = "none" THEN <<>>
    ELSE IF todos.tag = "err" THEN
        <<[el |-> "error", id |-> 0, title |-> "", checked |-> FALSE, sub |-> 0]>>
    ELSE IF todos.rows = <<>> THEN
        <<[el |-> "empty", id |-> 0, title |-> "", checked |-> FALSE, sub |-> 0]>>
    ELSE [k \in 1 .. Len(todos.rows) |->
            [el |-> "todo", id |-> todos.rows[k].id, title |-> todos.rows[k].title,
             checked |-> completed[k], sub |-> 0]]

\* A list of the submissions that is not filtered.
PendingFilterNone(s) == TRUE

\* The submissions that pass `.filter(|submission| submission.pending().get())'.
PendingFilter(s) == s.pending

\* One PendingTodo for each pending submission, in order of submission.
pending_todos ==
    LET P[k \in 0 .. Len(submissions)] ==
            IF k = 0 THEN <<>>
            ELSE IF PendingFilter(submissions[k])
                 THEN Append(P[k - 1],
                        [el |-> "pending", id |-> 0, title |-> submissions[k].input,
                         checked |-> FALSE, sub |-> k])
                 ELSE P[k - 1]
    IN  P[Len(submissions)]

\* A view that puts the pending submissions before the fetched list.
RenderedPendingFirst ==
    IF todos.tag = "none"
    THEN <<[el |-> "loading", id |-> 0, title |-> "", checked |-> FALSE, sub |-> 0]>>
    ELSE pending_todos \o existing_todos

\* What Todos renders: the Transition's fallback until the first load has
\* resolved, then the fetched list followed by the pending submissions.
Rendered ==
    IF todos.tag = "none"
    THEN <<[el |-> "loading", id |-> 0, title |-> "", checked |-> FALSE, sub |-> 0]>>
    ELSE existing_todos \o pending_todos

\* The <li> entries of what is rendered.
Entries == SelectSeq(Rendered, LAMBDA e : e.el \in {"todo", "pending"})

(* --------------------------- what the user does ------------------------- *)

\* The form is submitted: add_todo.dispatch pushes a pending submission and
\* spawns the call.
SubmitAddTodo(title) ==
    /\ submitted < MaxMutations
    /\ submitted' = submitted + 1
    /\ submissions' = Append(submissions,
                             [input |-> title, pending |-> TRUE, value |-> "none"])
    /\ calls' = Append(calls, Spawned([Call("add_todo", PageUser) EXCEPT
                                          !.title = title,
                                          !.sub = Len(submissions) + 1]))
    /\ UNCHANGED <<serverVars, addVersion, delAction, todos, completed, panicked, shown>>

\* A handler that leaves the signal alone until the server has replied.
SetCompletedOnReply(sig, k, checked) == sig

\* set_completed.set(checked) on the signal of the k-th Todo component.
SetCompleted(sig, k, checked) == [sig EXCEPT ![k] = checked]

\* The checkbox of the k-th task shown is changed: the signal is set and
\* update_todo is spawned.
ToggleTodo(k) ==
    /\ submitted < MaxMutations
    /\ submitted' = submitted + 1
    /\ todos.tag = "ok"
    /\ k \in 1 .. Len(todos.rows)
    /\ LET checked == ~completed[k]
       IN  /\ completed' = SetCompleted(completed, k, checked)
           /\ calls' = Append(calls, Spawned([Call("update_todo", PageUser) EXCEPT
                                                 !.id = todos.rows[k].id,
                                                 !.completed = checked]))
    /\ UNCHANGED <<serverVars, submissions, addVersion, delAction, todos, panicked, shown>>

\* The trash icon of the k-th task shown is pressed: delete_todo.dispatch.
SubmitDeleteTodo(k) ==
    /\ submitted < MaxMutations
    /\ submitted' = submitted + 1
    /\ todos.tag = "ok"
    /\ k \in 1 .. Len(todos.rows)
    /\ delAction' = [delAction EXCEPT
                       !.pending = TRUE,
                       !.pending_dispatches = delAction.pending_dispatches + 1]
    /\ calls' = Append(calls, Spawned([Call("delete_todo", PageUser) EXCEPT
                                          !.id = todos.rows[k].id]))
    /\ UNCHANGED <<serverVars, submissions, addVersion, todos, completed, panicked, shown>>

(* ----------------------- the replies reach the page --------------------- *)

\* The multi-action's task after `fut.await': the submission is settled and
\* the version bumped, which loads the resource again.
AddTodoDone(i) ==
    /\ ~panicked
    /\ calls[i].kind = "add_todo"
    /\ calls[i].stage = "replied"
    /\ submissions' = [submissions EXCEPT
                         ![calls[i].sub].value = calls[i].result,
                         ![calls[i].sub].pending = FALSE]
    /\ addVersion' = Bump(addVersion)
    /\ calls' = Load(Without(calls, i))
    /\ todos' = [todos EXCEPT !.version = todos.version + 1]
    /\ UNCHANGED <<serverVars, delAction, completed, panicked, submitted, shown>>

\* The action's task after `fut.await'.
DeleteTodoDone(i) ==
    /\ ~panicked
    /\ calls[i].kind = "delete_todo"
    /\ calls[i].stage = "replied"
    /\ delAction' = [value |-> calls[i].result,
                     version |-> Bump(delAction.version),
                     pending_dispatches |-> delAction.pending_dispatches - 1,
                     pending |-> delAction.pending_dispatches - 1 # 0]
    /\ calls' = Load(Without(calls, i))
    /\ todos' = [todos EXCEPT !.version = todos.version + 1]
    /\ UNCHANGED <<serverVars, submissions, addVersion, completed, panicked, submitted, shown>>

\* The spawned task of the checkbox: `update_todo(todo.id, checked).await.unwrap()'.
UpdateTodoDone(i) ==
    /\ ~panicked
    /\ calls[i].kind = "update_todo"
    /\ calls[i].stage = "replied"
    /\ calls' = Without(calls, i)
    /\ panicked' = (calls[i].result # "ok")
    /\ UNCHANGED <<serverVars, submissions, addVersion, delAction, todos, completed, submitted, shown>>

\* The resource's task after the fetch: the value is set if no later load
\* has started, and the Todo components are built again from it.
GetTodosDone(i) ==
    /\ ~panicked
    /\ calls[i].kind = "get_todos"
    /\ calls[i].stage = "replied"
    /\ calls' = Without(calls, i)
    /\ IF IsCurrent(calls[i].ver)
       THEN /\ todos' = IF calls[i].result = "ok"
                        THEN [todos EXCEPT !.tag = "ok", !.rows = calls[i].rows]
                        ELSE [todos EXCEPT !.tag = "err", !.rows = <<>>]
            /\ completed' = IF calls[i].result = "ok" THEN Signals(calls[i].rows) ELSE <<>>
            /\ shown' = calls[i].seen
       ELSE UNCHANGED <<todos, completed, shown>>
    /\ UNCHANGED <<serverVars, submissions, addVersion, delAction, panicked, submitted>>

PageStep ==
    \E i \in CallIds :
        \/ AddTodoDone(i)
        \/ DeleteTodoDone(i)
        \/ UpdateTodoDone(i)
        \/ GetTodosDone(i)

UserStep ==
    \/ \E title \in Titles : SubmitAddTodo(title)
    \/ \E k \in 1 .. Len(completed) : ToggleTodo(k)
    \/ \E k \in 1 .. Len(completed) : SubmitDeleteTodo(k)

Init == PageInit

Next ==
    \/ \E title \in Titles : SubmitAddTodo(title)
    \/ \E k \in 1 .. Len(completed) : ToggleTodo(k)
    \/ \E k \in 1 .. Len(completed) : SubmitDeleteTodo(k)
    \/ \E i \in CallIds : ServeGetTodosFetchAll(i)
    \/ \E i \in CallIds : ServeGetTodosReply(i)
    \/ \E i \in CallIds : ServeAddTodoUser(i)
    \/ \E i \in CallIds : ServeAddTodoInsert(i)
    \/ \E i \in CallIds : ServeUpdateTodo(i)
    \/ \E i \in CallIds : ServeDeleteTodo(i)
    \/ \E i \in CallIds : AddTodoDone(i)
    \/ \E i \in CallIds : DeleteTodoDone(i)
    \/ \E i \in CallIds : UpdateTodoDone(i)
    \/ \E i \in CallIds : GetTodosDone(i)

\* The page and the server.
Spec == Init /\ [][Next]_vars

\* The page and the server, where a call that can be served is served and a
\* reply that can be handled is handled.
FairSpec == Spec /\ WF_vars(ServerStep) /\ WF_vars(PageStep)

(* ======================= the server functions' claims =================== *)

\* The call at position i has been replied to in this step.
JustReplied(i) ==
    /\ i \in 1 .. Len(calls')
    /\ calls'[i].stage = "replied"
    /\ (i > Len(calls) \/ calls[i].stage # "replied")

\* The SELECT of the get_todos call at position i has run in this step.
JustRead(i) ==
    /\ i \in 1 .. Len(calls')
    /\ calls'[i].kind = "get_todos"
    /\ calls'[i].stage = "rows"
    /\ (i > Len(calls) \/ calls[i].stage # "rows")

\* The get_todos call at position i, whose SELECT had run, has replied in
\* this step.
JustJoined(i) ==
    /\ i \in 1 .. Len(calls)
    /\ calls[i].kind = "get_todos"
    /\ calls[i].stage = "rows"
    /\ calls'[i].stage = "replied"

\* The ids of a sequence of rows, in its order.
IdsOf(rows) == [k \in 1 .. Len(rows) |-> rows[k].id]

\* Where the row of an id stands in the table.
Pos(st, id) == CHOOSE q \in 1 .. Len(st) : st[q].id = id

\* The rows of the table other than the row of an id.
Others(st, id) == SelectSeq(st, LAMBDA r : r.id # id)

\* C3: get_todos returns the surviving rows in the order of their creation:
\* every step keeps the relative order of the rows that stay and puts a new
\* row behind all the rows there are; the SELECT of get_todos reads the rows
\* of the table in the table's order, and the reply lists the rows read in
\* the order read, so the rows of the reply that are still in the table
\* stand in the reply as they stand in the table.
C3_Ordering ==
    [][ /\ \A a \in StoreIds(store) \cap StoreIds(store') :
            \A b \in StoreIds(store) \cap StoreIds(store') :
                Pos(store, a) < Pos(store, b) => Pos(store', a) < Pos(store', b)
        /\ \A a \in StoreIds(store) \cap StoreIds(store') :
            \A b \in StoreIds(store') \ StoreIds(store) :
                Pos(store', a) < Pos(store', b)
        /\ \A i \in 1 .. Len(calls') :
            JustRead(i) => IdsOf(calls'[i].sql) = IdsOf(store)
        /\ \A i \in 1 .. Len(calls') :
            (JustReplied(i) /\ calls'[i].kind = "get_todos" /\ calls'[i].result = "ok")
                => /\ JustJoined(i)
                   /\ IdsOf(calls'[i].rows) = IdsOf(calls[i].sql)
                   /\ \A a \in 1 .. Len(calls'[i].rows) :
                        \A b \in 1 .. Len(calls'[i].rows) :
                            LET ida == calls'[i].rows[a].id
                                idb == calls'[i].rows[b].id
                            IN  (a < b /\ ida \in StoreIds(store')
                                       /\ idb \in StoreIds(store'))
                                => Pos(store', ida) < Pos(store', idb)
      ]_vars

\* A get_todos reply with three tasks, where a delete_todo has removed the
\* task in the middle and an update_todo has changed another since the
\* SELECT: the two tasks that stay stand in the reply as in the table.
C3_Witness ==
    \E i \in CallIds : \E j \in CallIds : \E g \in CallIds :
        /\ g < i /\ g < j
        /\ calls[i].kind = "delete_todo" /\ calls[i].affected = 1
        /\ calls[j].kind = "update_todo" /\ calls[j].affected = 1
        /\ calls[g].kind = "get_todos" /\ calls[g].result = "ok"
        /\ Len(calls[g].rows) = 3
        /\ calls[i].id = calls[g].rows[2].id
        /\ IdsOf(store) = <<calls[g].rows[1].id, calls[g].rows[3].id>>

\* C4: a delete_todo whose statement ran replies success, leaves the table
\* without the id and with every other row as it was, changes nothing when
\* the id was absent already, and deleting the id once more changes nothing.
C4_DeleteIdempotent ==
    [][ \A i \in 1 .. Len(calls') :
            (JustReplied(i) /\ calls'[i].kind = "delete_todo"
                            /\ calls'[i].result # "StoreError")
            => LET id == calls'[i].id
               IN  /\ calls'[i].result = "ok"
                   /\ id \notin StoreIds(store')
                   /\ Others(store', id) = Others(store, id)
                   /\ Len(store') = Len(Others(store, id))
                   /\ (id \notin StoreIds(store) => store' = store)
                   /\ DeleteRow(store', id) = store'
      ]_vars

\* delete_todo was called twice with the same id: the first call removed the
\* row, the second found none, and both replied success.
C4_Witness ==
    \E i \in CallIds : \E j \in CallIds :
        /\ i < j
        /\ calls[i].kind = "delete_todo" /\ calls[j].kind = "delete_todo"
        /\ calls[i].id = calls[j].id
        /\ calls[i].result = "ok" /\ calls[i].affected = 1
        /\ calls[j].result = "ok" /\ calls[j].affected = 0
        /\ store # <<>>

\* C5: a successful add_todo appends exactly one row, not completed, owned by
\* the caller's session user (-1 without one), with the title given and an
\* id no row has; the ids of the table stay pairwise distinct, the SELECT of
\* a get_todos reads every row of the table, and its reply lists every row
\* read.
C5_AddTodo ==
    [][ /\ \A i \in 1 .. Len(calls') :
            (JustReplied(i) /\ calls'[i].kind = "add_todo" /\ calls'[i].result = "ok")
            => /\ Len(store') = Len(store) + 1
               /\ SubSeq(store', 1, Len(store)) = store
               /\ LET row == store'[Len(store')]
                  IN  /\ row.completed = FALSE
                      /\ row.title = calls'[i].title
                      /\ row.user_id = (IF calls'[i].caller = NoUser
                                        THEN -1 ELSE calls'[i].caller)
                      /\ row.id \notin StoreIds(store)
        /\ Cardinality(StoreIds(store')) = Len(store')
        /\ \A i \in 1 .. Len(calls') :
            JustRead(i) => StoreIds(calls'[i].sql) = StoreIds(store)
        /\ \A i \in 1 .. Len(calls') :
            (JustReplied(i) /\ calls'[i].kind = "get_todos" /\ calls'[i].result = "ok")
            => /\ JustJoined(i)
               /\ {calls'[i].rows[k].id : k \in 1 .. Len(calls'[i].rows)}
                     = StoreIds(calls[i].sql)
      ]_vars

\* Two add_todo calls ran at the same time (the one issued first, by the
\* user, inserted last), both succeeded, and a later get_todos lists both.
C5_Witness ==
    /\ Len(calls) = 3
    /\ calls[1].kind = "add_todo" /\ calls[1].caller = 1 /\ calls[1].result = "ok"
    /\ calls[2].kind = "add_todo" /\ calls[2].caller = NoUser /\ calls[2].result = "ok"
    /\ calls[3].kind = "get_todos" /\ calls[3].result = "ok"
    /\ Len(store) >= 2
    /\ store[Len(store) - 1].user_id = AnonymousId
    /\ store[Len(store)].user_id = 1
    /\ Len(calls[3].rows) = Len(store)

\* C6 as claimed: an update_todo on an id that is not in the table, whose
\* statement ran, replies NotFound and leaves the table as it was.
C6_UpdateMissingNotFound ==
    [][ \A i \in 1 .. Len(calls') :
            (JustReplied(i) /\ calls'[i].kind = "update_todo"
                            /\ calls'[i].id \notin StoreIds(store)
                            /\ calls'[i].result # "StoreError")
            => (calls'[i].result = "NotFound" /\ store' = store)
      ]_vars

\* C6 as amended: an update_todo on an id that is not in the table leaves
\* the table as it was and replies success, or the error of the database:
\* it never replies NotFound.
C6_UpdateMissingSucceeds ==
    [][ \A i \in 1 .. Len(calls') :
            (JustReplied(i) /\ calls'[i].kind = "update_todo"
                            /\ calls'[i].id \notin StoreIds(store))
            => /\ store' = store
               /\ calls'[i].result \in {"ok", "StoreError"}
               /\ (calls'[i].result = "ok" => calls'[i].affected = 0)
      ]_vars

\* update_todo(id, TRUE) has replied success for an id that no row of the
\* table has, while the table holds other rows, none of them completed.
C6_Witness ==
    \E i \in CallIds :
        /\ calls[i].kind = "update_todo" /\ calls[i].completed
        /\ calls[i].result = "ok" /\ calls[i].affected = 0
        /\ calls[i].id \notin StoreIds(store)
        /\ store # <<>>
        /\ \A k \in 1 .. Len(store) : ~store[k].completed

(* ============================ the page's claims ========================= *)

\* The submissions that are pending.
PendingSubs == {k \in 1 .. Len(submissions) : submissions[k].pending}

\* The calls of a kind in flight.
InFlight(cs, kind) == Cardinality({i \in 1 .. Len(cs) : cs[i].kind = kind})

\* The table as the page would show it: every row a Todo, checked as stored.
StoreShown ==
    [k \in 1 .. Len(store) |->
        [el |-> "todo", id |-> store[k].id, title |-> store[k].title,
         checked |-> store[k].completed, sub |-> 0]]

\* C1: once every mutation submitted has ended and a get_todos that read the
\* table after that has succeeded and is the value shown, the page shows
\* exactly the rows of the table: same tasks, same completed flags, no
\* pending entry.
C1_Convergence ==
    (/\ todos.tag = "ok"
     /\ Mutations = {}
     /\ shown = submitted)
    => Entries = StoreShown

\* A create and a toggle have both ended, the table was read after that, and
\* the page shows the fetched list: two tasks, the first completed.
C1_Witness ==
    /\ todos.tag = "ok" /\ Mutations = {} /\ shown = submitted
    /\ submitted = 2
    /\ Len(submissions) = 1 /\ submissions[1].value = "ok"
    /\ Len(store) = 2 /\ store[1].completed
    /\ Len(Entries) = 2

\* A submission has settled and every load of the resource has ended, the
\* load that the submission started among them.
Refetched(k) ==
    /\ ~submissions[k].pending
    /\ \A i \in CallIds : calls[i].kind # "get_todos"

\* C2 as claimed: while a create is pending the page shows exactly one entry
\* more than the fetched list; once a create is confirmed and its refetch
\* handled, the page shows as many entries as the fetched list and no
\* pending entry of that create.
C2_OneMoreWhilePending ==
    todos.tag = "ok" =>
        /\ PendingSubs # {} => Len(Entries) = Len(todos.rows) + 1
        /\ \A k \in 1 .. Len(submissions) :
            (submissions[k].value = "ok" /\ Refetched(k))
            => /\ Len(Entries) = Len(todos.rows)
               /\ \A e \in 1 .. Len(Entries) : Entries[e].sub # k

\* C2 as amended: while the page shows a fetched list, it shows one entry
\* more than that list for each create that is pending, one entry per
\* pending create; a create that has ended has no pending entry, so once
\* none is pending the page shows as many entries as the fetched list.
C2_NoRegression ==
    /\ todos.tag = "ok" => Len(Entries) = Len(todos.rows) + Cardinality(PendingSubs)
    /\ todos.tag # "none" =>
        \A k \in 1 .. Len(submissions) :
            Cardinality({e \in 1 .. Len(Entries) : Entries[e].sub = k})
                = (IF submissions[k].pending THEN 1 ELSE 0)
    /\ \A k \in 1 .. Len(submissions) :
        (submissions[k].value = "ok" /\ Refetched(k) /\ todos.tag = "ok" /\ PendingSubs = {})
        => Len(Entries) = Len(todos.rows)

\* One create is confirmed and its refetch is shown, while a second create
\* is pending: the page shows the fetched list and one pending entry.
C2_Witness ==
    /\ todos.tag = "ok"
    /\ Len(submissions) = 2
    /\ submissions[1].value = "ok" /\ Refetched(1)
    /\ submissions[2].pending
    /\ Len(todos.rows) = Len(store)
    /\ Len(todos.rows) >= 1
    /\ Len(Entries) = Len(todos.rows) + 1

\* The i-th call in flight is a mutation whose reply is handled in this step.
Ends(i) ==
    /\ calls[i].kind \in MutationKinds
    /\ calls[i].stage = "replied"
    /\ \/ calls' = Without(calls, i)
       \/ calls' = Load(Without(calls, i))

\* C7 as claimed: a submission starts pending; the step that ends a mutation
\* records its reply (confirmed on success, failed on error) and leaves the
\* page running; a settled submission does not change again; and whenever
\* mutations are in flight, eventually none is.
C7_Lifecycle ==
    /\ [][ /\ Len(submissions') > Len(submissions)
                => submissions'[Len(submissions')].pending
           /\ \A i \in CallIds :
                Ends(i) =>
                    /\ ~panicked'
                    /\ calls[i].kind = "add_todo" =>
                         /\ ~submissions'[calls[i].sub].pending
                         /\ submissions'[calls[i].sub].value = calls[i].result
                    /\ calls[i].kind = "delete_todo" =>
                         delAction'.value = calls[i].result
           /\ \A k \in 1 .. Len(submissions) :
                ~submissions[k].pending => submissions'[k] = submissions[k]
         ]_vars
    /\ (Mutations # {}) ~> (Mutations = {})

\* C8: in every step each version counter goes up by exactly the number of
\* mutations of its kind that end in the step, and by nothing else, and
\* add_todo's version is the number of submissions that have settled.
C8_VersionCounters ==
    [][ /\ addVersion' - addVersion
            = Cardinality({k \in 1 .. Len(submissions) :
                              submissions[k].pending /\ ~submissions'[k].pending})
        /\ addVersion' = Cardinality({k \in 1 .. Len(submissions') : ~submissions'[k].pending})
        /\ delAction'.version - delAction.version
            = (IF InFlight(calls', "delete_todo") < InFlight(calls, "delete_todo")
               THEN InFlight(calls, "delete_todo") - InFlight(calls', "delete_todo")
               ELSE 0)
        /\ InFlight(calls', "delete_todo") = delAction'.pending_dispatches
      ]_vars

\* Two creates have ended, one confirmed and one failed, and add_todo's
\* version is two.
C8_Witness ==
    /\ Len(submissions) = 2
    /\ addVersion = 2
    /\ \E k \in 1 .. 2 : submissions[k].value = "ok"
    /\ \E k \in 1 .. 2 : submissions[k].value \notin {"ok", "none"}

\* C9 as claimed: when a refetch fails after a fetch that succeeded, the page
\* shows the error and still every task it showed before.
C9_ErrorKeepsList ==
    [][ (todos.tag = "ok" /\ todos'.tag = "err")
        => /\ \E e \in 1 .. Len(Rendered') : Rendered'[e].el = "error"
           /\ \A k \in 1 .. Len(Rendered) :
                Rendered[k].el = "todo"
                => \E e \in 1 .. Len(Rendered') :
                     Rendered'[e].el = "todo" /\ Rendered'[e].id = Rendered[k].id
      ]_vars

\* C10 as claimed: no failure of a mutation stops the page: no task spawned
\* on it has panicked.
C10_NoFatalFailure == ~panicked

\* The update_todo call at position i is confirmed in this step: its reply
\* is success and the step handles it.
ToggleConfirmed(i) ==
    /\ calls[i].kind = "update_todo"
    /\ calls[i].stage = "replied"
    /\ calls[i].result = "ok"
    /\ ~panicked
    /\ calls' = Without(calls, i)

\* C11 as claimed: when a toggle is confirmed and no other toggle of the
\* task is in flight, the completed flag the page shows for the task is the
\* completed flag the table holds for it.
C11_ConfirmedToggleAgrees ==
    [][ \A i \in CallIds :
            (/\ ToggleConfirmed(i)
             /\ \A j \in CallIds \ {i} :
                    ~(calls[j].kind = "update_todo" /\ calls[j].id = calls[i].id))
            => \A e \in 1 .. Len(Rendered') : \A r \in 1 .. Len(store') :
                    (/\ Rendered'[e].el = "todo"
                     /\ Rendered'[e].id = calls[i].id
                     /\ store'[r].id = calls[i].id)
                    => Rendered'[e].checked = store'[r].completed
      ]_vars

\* The get_todos calls that the step issues.
Issued ==
    {i \in 1 .. Len(calls') :
        calls'[i].kind = "get_todos" /\ calls'[i].ver > todos.version}

\* A mutation of the kind ends in the step.
EndsOf(kind) == InFlight(calls', kind) < InFlight(calls, kind)

\* C12: a step issues a get_todos call exactly when it changes add_todo's or
\* delete_todo's version, which is exactly when a create or a delete ends;
\* it issues one call then, and none when a toggle ends; so the loads
\* started are the first load and one for each version change.
C12_RefetchOnVersionChange ==
    [][ LET changed == addVersion' # addVersion \/ delAction'.version # delAction.version
        IN  /\ (EndsOf("add_todo") \/ EndsOf("delete_todo")) <=> changed
            /\ changed <=> Issued # {}
            /\ Cardinality(Issued) <= 1
            /\ EndsOf("update_todo") => Issued = {}
            /\ todos'.version = 1 + addVersion' + delAction'.version
      ]_vars

\* A toggle has ended and started no load, and a create has ended and its
\* load, the second of the resource, is in flight.
C12_Witness ==
    /\ submitted = 2
    /\ Mutations = {}
    /\ ~panicked
    /\ addVersion = 1
    /\ \E r \in 1 .. Len(store) : store[r].completed
    /\ todos.version = 2
    /\ Cardinality({i \in CallIds : calls[i].kind = "get_todos"}) = 1
    /\ \E i \in CallIds : calls[i].kind = "get_todos" /\ calls[i].ver = 2

\* Exactly one pending entry is rendered for each pending submission, with
\* its title, and none for a submission that has settled.
OnePendingEntryEach ==
    /\ \A e \in 1 .. Len(Rendered) :
        Rendered[e].el = "pending"
        => /\ Rendered[e].sub \in 1 .. Len(submissions)
           /\ Rendered[e].title = submissions[Rendered[e].sub].input
    /\ \A k \in 1 .. Len(submissions) :
        Cardinality({e \in 1 .. Len(Rendered) :
                        Rendered[e].el = "pending" /\ Rendered[e].sub = k})
            = (IF submissions[k].pending THEN 1 ELSE 0)

\* Nothing but pending entries follows a pending entry, and the pending
\* entries stand in the order of submission.
PendingEntriesLast ==
    \A e \in 1 .. Len(Rendered) : \A f \in 1 .. Len(Rendered) :
        (e < f /\ Rendered[e].el = "pending")
        => (Rendered[f].el = "pending" /\ Rendered[e].sub < Rendered[f].sub)

\* The tasks rendered are the tasks of the fetched list, in its order.
FetchedListInOrder ==
    LET shownTodos == SelectSeq(Rendered, LAMBDA e : e.el = "todo")
    IN  /\ Len(shownTodos) = Len(todos.rows)
        /\ \A k \in 1 .. Len(shownTodos) :
            /\ shownTodos[k].id = todos.rows[k].id
            /\ shownTodos[k].title = todos.rows[k].title

\* C13 as claimed: in every state the page renders the fetched list in its
\* order, followed by exactly one pending entry for each pending create, in
\* order of submission, and no pending entry for a create that has settled.
C13_ListThenPending ==
    /\ todos.tag # "err" => FetchedListInOrder
    /\ OnePendingEntryEach
    /\ PendingEntriesLast

\* C13 as amended: until the first fetch has resolved the page renders the
\* loading placeholder alone; from then on it renders what it shows for the
\* last fetch (the fetched list in its order when the fetch succeeded),
\* followed by exactly one pending entry for each pending create, in order
\* of submission, and no pending entry for a create that has settled.
C13_FetchedThenPending ==
    /\ todos.tag = "none" =>
        (Len(Rendered) = 1 /\ Rendered[1].el = "loading")
    /\ todos.tag = "ok" => FetchedListInOrder
    /\ todos.tag # "none" => (OnePendingEntryEach /\ PendingEntriesLast)

\* The first create is confirmed and shown by no pending entry while the
\* refetch that will show its row is still in flight; the second create is
\* pending and rendered behind the one fetched task.
C13_Witness ==
    /\ todos.tag = "ok"
    /\ Len(submissions) = 2
    /\ submissions[1].value = "ok" /\ ~submissions[1].pending
    /\ submissions[2].pending
    /\ Len(todos.rows) = 1 /\ Len(store) >= 2
    /\ \E i \in CallIds : calls[i].kind = "get_todos" /\ calls[i].ver = todos.version
    /\ Len(Rendered) = 2
    /\ Rendered[1].el = "todo" /\ Rendered[2].el = "pending" /\ Rendered[2].sub = 2

\* The flag the page shows for a task, and the flag the table holds for it.
ShownFlag(view, id) ==
    {view[e].checked : e \in {x \in 1 .. Len(view) : view[x].el = "todo" /\ view[x].id = id}}

StoredFlag(st, id) ==
    {st[r].completed : r \in {x \in 1 .. Len(st) : st[x].id = id}}

\* C14: the step in which the user toggles a task flips the flag shown for
\* it, while the update_todo call it issues has no reply yet and no fetch is
\* awaited; the step that handles a failed update_todo reply leaves every
\* flag shown as it was.
C14_OptimisticNoRollback ==
    [][ /\ (/\ Len(calls') = Len(calls) + 1
             /\ calls'[Len(calls')].kind = "update_todo")
            => LET id == calls'[Len(calls')].id
               IN  /\ calls'[Len(calls')].result = "none"
                   /\ ShownFlag(Rendered', id) = {calls'[Len(calls')].completed}
                   /\ ShownFlag(Rendered, id) = {~calls'[Len(calls')].completed}
                   /\ todos' = todos
                   /\ store' = store
        /\ \A i \in CallIds :
            (/\ calls[i].kind = "update_todo"
             /\ calls[i].stage = "replied"
             /\ calls[i].result # "ok"
             /\ calls' = Without(calls, i))
            => /\ Rendered' = Rendered
               /\ completed' = completed
      ]_vars

\* A toggle has failed and its reply has been handled: the page still shows
\* the task as completed while the table holds it as not completed.
C14_Witness ==
    /\ panicked
    /\ Mutations = {}
    /\ \E r \in 1 .. Len(store) :
        /\ ShownFlag(Rendered, store[r].id) = {TRUE}
        /\ StoredFlag(store, store[r].id) = {FALSE}

\* C15: an update_todo that succeeds on an id of the table gives that row
\* the completed flag of the call and leaves the number of rows, the row's
\* other columns and every other row as they were; no step changes the
\* title, the owner or the creation stamp of a row that stays; and a
\* get_todos reply shows each row with the flag and the title it holds.
C15_UpdateFrame ==
    [][ /\ \A i \in 1 .. Len(calls') :
            (/\ JustReplied(i)
             /\ calls'[i].kind = "update_todo"
             /\ calls'[i].result = "ok"
             /\ calls'[i].id \in StoreIds(store))
            => /\ Len(store') = Len(store)
               /\ \A r \in 1 .. Len(store) :
                    /\ store'[r].id = store[r].id
                    /\ store'[r].completed =
                         (IF store[r].id = calls'[i].id
                          THEN calls'[i].completed ELSE store[r].completed)
        /\ \A r \in 1 .. Len(store) : \A q \in 1 .. Len(store') :
            store'[q].id = store[r].id
            => /\ store'[q].title = store[r].title
               /\ store'[q].user_id = store[r].user_id
               /\ store'[q].created_at = store[r].created_at
        /\ \A i \in 1 .. Len(calls') :
            JustRead(i)
            => /\ Len(calls'[i].sql) = Len(store)
               /\ \A k \in 1 .. Len(store) :
                    /\ calls'[i].sql[k].id = store[k].id
                    /\ calls'[i].sql[k].completed = store[k].completed
                    /\ calls'[i].sql[k].title = store[k].title
        /\ \A i \in 1 .. Len(calls') :
            (JustReplied(i) /\ calls'[i].kind = "get_todos" /\ calls'[i].result = "ok")
            => /\ JustJoined(i)
               /\ Len(calls'[i].rows) = Len(calls[i].sql)
               /\ \A k \in 1 .. Len(calls[i].sql) :
                    /\ calls'[i].rows[k].id = calls[i].sql[k].id
                    /\ calls'[i].rows[k].completed = calls[i].sql[k].completed
                    /\ calls'[i].rows[k].title = calls[i].sql[k].title
      ]_vars

\* update_todo(id, TRUE) succeeded on a row of the table, and a later
\* get_todos shows that row completed and another row not completed.
C15_Witness ==
    \E i \in CallIds : \E g \in CallIds :
        /\ i < g
        /\ calls[i].kind = "update_todo" /\ calls[i].completed
        /\ calls[i].result = "ok" /\ calls[i].affected = 1
        /\ calls[g].kind = "get_todos" /\ calls[g].result = "ok"
        /\ \E k \in 1 .. Len(calls[g].rows) :
            calls[g].rows[k].id = calls[i].id /\ calls[g].rows[k].completed
        /\ \E k \in 1 .. Len(calls[g].rows) :
            calls[g].rows[k].id # calls[i].id /\ ~calls[g].rows[k].completed

\* C16: an add_todo call whose identity lookup fails is replied to with the
\* error at once and the table is as before; a call so replied never changes
\* again; and the table grows only in the step in which an add_todo call
\* that had its user resolved replies success.
C16_LookupFailureWritesNothing ==
    [][ /\ (/\ Len(calls') = Len(calls) + 1
            /\ calls'[Len(calls')].kind = "add_todo"
            /\ failures' = failures + 1)
           => /\ calls'[Len(calls')].stage = "replied"
              /\ calls'[Len(calls')].result = "AuthUnavailable"
              /\ store' = store
              /\ nextId' = nextId
        /\ \A i \in CallIds :
            calls[i].result = "AuthUnavailable" => calls'[i] = calls[i]
        /\ Len(store') > Len(store)
           => \E i \in CallIds :
                /\ calls[i].kind = "add_todo"
                /\ calls[i].stage = "user"
                /\ calls'[i].result = "ok"
      ]_vars

\* An add_todo call failed at the identity lookup, and a later get_todos
\* lists the rows that were there before, no more.
C16_Witness ==
    \E i \in CallIds : \E g \in CallIds :
        /\ i < g
        /\ calls[i].kind = "add_todo" /\ calls[i].result = "AuthUnavailable"
        /\ calls[g].kind = "get_todos" /\ calls[g].result = "ok"
        /\ Len(calls[g].rows) = Len(store)
        /\ store # <<>>
        /\ nextId = Len(store) + 1

\* C17 as claimed: an add_todo call with the empty title, when neither the
\* identity lookup nor the database fails, is replied to with a validation
\* error, and the table is as before.
C17_EmptyTitleRejected ==
    [][ \A i \in 1 .. Len(calls') :
            (/\ JustReplied(i)
             /\ calls'[i].kind = "add_todo"
             /\ calls'[i].title = ""
             /\ failures' = failures)
            => /\ calls'[i].result = "ValidationError"
               /\ store' = store
      ]_vars

\* The call as another caller would have sent it.
CalledBy(c, caller) ==
    [Call(c.kind, caller) EXCEPT !.id = c.id, !.completed = c.completed]

\* C19: the reply of an update_todo or delete_todo call and the table after
\* it are those the same call gives for every other caller, signed in or
\* not, on the same table.
C19_CallerIndependent ==
    [][ \A i \in 1 .. Len(calls') :
            (JustReplied(i) /\ calls'[i].kind \in {"update_todo", "delete_todo"})
            => \A caller \in Callers :
                LET c    == CalledBy(calls'[i], caller)
                    fail == failures' # failures
                IN  IF calls'[i].kind = "update_todo"
                    THEN /\ store' = update_todo_store(c, fail)
                         /\ calls'[i].result = update_todo_reply(c, fail).result
                         /\ calls'[i].affected = update_todo_reply(c, fail).affected
                    ELSE /\ store' = delete_todo_store(c, fail)
                         /\ calls'[i].result = delete_todo_reply(c, fail).result
                         /\ calls'[i].affected = delete_todo_reply(c, fail).affected
      ]_vars

\* An anonymous caller has set the flag of the task that user 1 owns, and
\* user 1 has then deleted it: both calls succeeded on the row.
C19_Witness ==
    /\ Len(calls) = 2
    /\ calls[1].kind = "update_todo" /\ calls[1].caller = NoUser
    /\ calls[1].completed /\ calls[1].result = "ok" /\ calls[1].affected = 1
    /\ calls[2].kind = "delete_todo" /\ calls[2].caller = 1
    /\ calls[2].id = calls[1].id
    /\ calls[2].result = "ok" /\ calls[2].affected = 1
    /\ store = <<>>

\* C18: a get_todos that the database does not fail succeeds, and its list
\* has one task for each row its SELECT read, in the order read; a task
\* whose owner reference is a user's id carries that user and is shown with
\* the user's username; a task whose owner reference matches no user, the
\* anonymous -1 included, carries no user and is shown with the default
\* username.
C18_OwnerLookup ==
    [][ \A i \in 1 .. Len(calls') :
            (JustReplied(i) /\ calls'[i].kind = "get_todos" /\ failures' = failures)
            => /\ calls'[i].result = "ok"
               /\ JustJoined(i)
               /\ Len(calls'[i].rows) = Len(calls[i].sql)
               /\ \A k \in 1 .. Len(calls[i].sql) :
                    LET todo == calls'[i].rows[k]
                        ref  == calls[i].sql[k].user_id
                    IN  /\ todo.id = calls[i].sql[k].id
                        /\ ref \in Users =>
                             (todo.user.id = ref /\ OwnerShown(todo) = Username(ref))
                        /\ ref \notin Users =>
                             (todo.user.id = NoUser /\ OwnerShown(todo) = DefaultUsername)
      ]_vars

\* A get_todos has replied with a task owned by user 1 followed by a task
\* with the anonymous owner reference, which carries no user.
C18_Witness ==
    \E g \in CallIds :
        /\ calls[g].kind = "get_todos" /\ calls[g].result = "ok"
        /\ Len(calls[g].rows) >= 2
        /\ calls[g].rows[1].user.id = 1
        /\ calls[g].rows[2].user.id = NoUser
        /\ calls[g].sql[1].user_id = 1
        /\ calls[g].sql[2].user_id = AnonymousId

\* C20: every step leaves the table as one statement applied to the table
\* before it leaves it; an update_todo that succeeds keeps the ids of the
\* table, gives the row of its id its own flag and changes nothing when no
\* row has the id; a task that a delete_todo has removed is in the table
\* never again, and an id that enters the table is one the table never had.
C20_ToggleDeleteSerial ==
    [][ /\ \/ store' = store
           \/ \E id \in StoreIds(store) : \E c \in BOOLEAN :
                store' = UpdateCompleted(store, id, c)
           \/ \E id \in StoreIds(store) : store' = DeleteRow(store, id)
           \/ Len(store') = Len(store) + 1 /\ SubSeq(store', 1, Len(store)) = store
        /\ \A i \in 1 .. Len(calls') :
            (JustReplied(i) /\ calls'[i].kind = "update_todo" /\ calls'[i].result = "ok")
            => /\ StoreIds(store') = StoreIds(store)
               /\ \A r \in 1 .. Len(store') :
                    store'[r].id = calls'[i].id => store'[r].completed = calls'[i].completed
               /\ calls'[i].id \notin StoreIds(store) => store' = store
        /\ \A i \in 1 .. Len(calls') :
            (/\ calls'[i].kind = "delete_todo"
             /\ calls'[i].result = "ok"
             /\ calls'[i].affected = 1)
            => calls'[i].id \notin StoreIds(store')
        /\ \A id \in StoreIds(store') \ StoreIds(store) :
            id >= nextId /\ id < nextId'
      ]_vars

\* A task was toggled, then deleted, and a toggle of it that arrived after
\* the delete succeeded on no row: the task is absent, another task is left.
C20_Witness ==
    /\ Len(calls) = 3
    /\ calls[1].kind = "update_todo" /\ calls[1].result = "ok" /\ calls[1].affected = 1
    /\ calls[2].kind = "delete_todo" /\ calls[2].result = "ok" /\ calls[2].affected = 1
    /\ calls[3].kind = "update_todo" /\ calls[3].result = "ok" /\ calls[3].affected = 0
    /\ calls[3].completed
    /\ calls[1].id = calls[2].id /\ calls[3].id = calls[2].id
    /\ calls[2].id \notin StoreIds(store)
    /\ store # <<>>

\* C21 as claimed: with the database working, a delete_todo or update_todo
\* call with the id of a task of the table, whatever its size, succeeds on
\* that task: delete_todo removes it and update_todo sets its flag, and
\* every other task stays as it was.
C21_EveryIdAddressable ==
    [][ \A i \in 1 .. Len(calls') :
            (/\ JustReplied(i)
             /\ calls'[i].kind \in {"delete_todo", "update_todo"}
             /\ calls'[i].id \in StoreIds(store)
             /\ failures' = failures)
            => /\ calls'[i].result = "ok"
               /\ Others(store', calls'[i].id) = Others(store, calls'[i].id)
               /\ calls'[i].kind = "delete_todo" => calls'[i].id \notin StoreIds(store')
               /\ calls'[i].kind = "update_todo" =>
                    \E r \in 1 .. Len(store') :
                        /\ store'[r].id = calls'[i].id
                        /\ store'[r].completed = calls'[i].completed
      ]_vars

====
